---- MODULE Spec2Model ----
(***************************************************************************)
(* A model of the go-discogs client: construction (New), the two transport *)
(* functions (request, requestWithCreds), the eight database operations,   *)
(* the three collection operations and OAuthIdentity.                      *)
(*                                                                         *)
(* Strings are TLA+ strings; paths are built by concatenation, decimal     *)
(* conversion (Itoa) and first-occurrence replacement (Replace), as the    *)
(* code builds them.  A call is a process: it starts (options applied,     *)
(* path built), issues its one HTTP request, and returns when the          *)
(* transport answers.                                                      *)
(***************************************************************************)
EXTENDS Integers, Sequences, FiniteSets, TLC

VARIABLES
    header,     \* discogs.go:45  the package-level  var header *http.Header
    client,     \* the client value the caller holds (services and their fields)
    newRet,     \* what the last call of New returned
    calls,      \* the calls in progress, one per caller goroutine
    ret,        \* what the last finished operation returned
    aborted     \* the process has panicked

vars == <<header, client, newRet, calls, ret, aborted>>

(***************************************************************************)
(* Bounds of the model.                                                    *)
(***************************************************************************)
MaxCalls == 2       \* goroutines calling concurrently (SpecConc)
MaxOptions == 2     \* options passed to one call (SpecOptions)

(***************************************************************************)
(* Strings.                                                                *)
(***************************************************************************)
\* strings.Index: the position of the first occurrence of sub in s, 0 if none.
Index(s, sub) ==
    LET hits == {i \in 1..(Len(s) - Len(sub) + 1) : SubSeq(s, i, i + Len(sub) - 1) = sub}
    IN  IF hits = {} THEN 0 ELSE CHOOSE i \in hits : \A j \in hits : i <= j

Contains(s, sub) == Index(s, sub) # 0

\* strings.Replace(s, old, new, 1): the first occurrence of old replaced.
Replace(s, old, new) ==
    LET i == Index(s, old)
    IN  IF i = 0 THEN s
        ELSE SubSeq(s, 1, i - 1) \o new \o SubSeq(s, i + Len(old), Len(s))

Digit(d) == SubSeq("0123456789", d + 1, d + 1)

RECURSIVE FormatUint(_)
FormatUint(n) == IF n < 10 THEN Digit(n) ELSE FormatUint(n \div 10) \o Digit(n % 10)

\* A mutant of Itoa: the sign is dropped.
ItoaUnsigned(n) == IF n < 0 THEN FormatUint(0 - n) ELSE FormatUint(n)

\* strconv.Itoa
Itoa(n) == IF n < 0 THEN "-" \o FormatUint(0 - n) ELSE FormatUint(n)

(***************************************************************************)
(* Errors.  An error value is a record: its identity (kind), its text, and *)
(* for an error made by fmt.Errorf with %w the error it wraps.             *)
(***************************************************************************)
NoErr == [kind |-> "nil", msg |-> "", unwrap |-> <<>>]
ErrUserAgentInvalid == [kind |-> "ErrUserAgentInvalid", msg |-> "invalid user-agent", unwrap |-> <<>>]
ErrCurrencyNotSupported == [kind |-> "ErrCurrencyNotSupported", msg |-> "currency not supported", unwrap |-> <<>>]
ErrUnauthorized == [kind |-> "ErrUnauthorized", msg |-> "unauthorized", unwrap |-> <<>>]

(***************************************************************************)
(* Construction.                                                           *)
(***************************************************************************)
discogsAPI == "https://api.discogs.com"

SupportedCurrencies ==
    {"USD", "GBP", "EUR", "CAD", "AUD", "JPY", "CHF", "MXN", "BRL", "NZD", "SEK", "ZAR"}

\* A mutant of currency: an unknown code falls back to the default.
currencyLenient(c) ==
    IF c \in SupportedCurrencies THEN [cur |-> c, err |-> NoErr]
    ELSE [cur |-> "USD", err |-> NoErr]

\* currency validates the currency code.
currency(c) ==
    IF c \in SupportedCurrencies THEN [cur |-> c, err |-> NoErr]
    ELSE IF c = "" THEN [cur |-> "USD", err |-> NoErr]
    ELSE [cur |-> "", err |-> ErrCurrencyNotSupported]

\* The *Options argument of New: nil, or a struct of four strings.
NilOptions == [isNil |-> TRUE, URL |-> "", Currency |-> "", UserAgent |-> "", Token |-> ""]

MkOptions(url, cur, ua, tok) ==
    [isNil |-> FALSE, URL |-> url, Currency |-> cur, UserAgent |-> ua, Token |-> tok]

\* http.Header as a function from the keys present to their value.
EmptyHeader == [k \in {} |-> ""]

HeaderAdd(h, k, v) == [x \in DOMAIN h \cup {k} |-> IF x = k THEN v ELSE h[x]]

NilOAuth == "nil"

NoClient == [isNil |-> TRUE]

newDatabaseService(url, cur) == [url |-> url, currency |-> cur]
newSearchService(url) == [url |-> url]
newUserService(url) == [url |-> url, oauthClient |-> NilOAuth, creds |-> NilOAuth]
newCollectionService(url) == [url |-> url, oauthClient |-> NilOAuth, creds |-> NilOAuth]

\* A mutant of NewUserAgentOK: only a nil Options is rejected.
NewUserAgentOKNilOnly(o) == ~o.isNil

\* discogs.go:51  the user-agent check of New.
NewUserAgentOK(o) == ~(o.isNil \/ o.UserAgent = "")

\* The header New leaves in the package variable, for each way it returns.
NewHeader(o) ==
    IF ~NewUserAgentOK(o) THEN EmptyHeader
    ELSE LET h1 == HeaderAdd(EmptyHeader, "User-Agent", o.UserAgent)
         IN  IF currency(o.Currency).err # NoErr THEN h1
             ELSE IF o.Token # "" THEN HeaderAdd(h1, "Authorization", "Discogs token=" \o o.Token)
             ELSE h1

\* What New returns: the client (NoClient for nil) and the error.
NewResult(o) ==
    IF ~NewUserAgentOK(o) THEN [client |-> NoClient, err |-> ErrUserAgentInvalid]
    ELSE IF currency(o.Currency).err # NoErr
         THEN [client |-> NoClient, err |-> currency(o.Currency).err]
    ELSE LET url == IF o.URL = "" THEN discogsAPI ELSE o.URL
             cur == currency(o.Currency).cur
         IN  [client |->
                 [isNil |-> FALSE,
                  opts |-> o,       \* the Options it was constructed with (history)
                  database |-> newDatabaseService(url, cur),
                  search |-> newSearchService(url \o "/database/search"),
                  user |-> newUserService(url),
                  collection |-> newCollectionService(url)],
              err |-> NoErr]

IdleCall == [pc |-> "idle"]

Procs == 1..MaxCalls

Idle == \A p \in Procs : calls[p].pc = "idle"

NoRet == [op |-> "none"]

\* New(o).  The caller either keeps the client it already holds (keep) or
\* holds the one returned; a nil return never replaces a client held.  The
\* model follows one client at a time; every earlier New shows in header
\* only, which is all that clients share.  New runs between operations.
New(o, keep) ==
    /\ ~aborted
    /\ Idle
    /\ header' = NewHeader(o)
    /\ newRet' = [called |-> TRUE, opts |-> o, client |-> NewResult(o).client, err |-> NewResult(o).err]
    /\ client' = IF keep \/ NewResult(o).client.isNil THEN client
                 ELSE NewResult(o).client
    /\ UNCHANGED <<calls, ret, aborted>>

Init ==
    /\ header = EmptyHeader
    /\ client = NoClient
    /\ newRet = [called |-> FALSE, opts |-> NilOptions, client |-> NoClient, err |-> NoErr]
    /\ calls = [p \in Procs |-> IdleCall]
    /\ ret = NoRet
    /\ aborted = FALSE

(***************************************************************************)
(* The transport: what the server (or the network) answers, and what the   *)
(* two transport functions make of it.                                     *)
(***************************************************************************)
StatusOK == 200
StatusUnauthorized == 401

\* An answer of the HTTP stack: no response at all (failed), or a response
\* with its status code, its status text and the kind of body it carries:
\*   "object"       a JSON object of the expected shape
\*   "emptyobject"  {}
\*   "null"         the JSON literal null
\*   "syntax"       bytes that are not JSON
\*   "mismatch"     JSON whose shape does not fit the destination type
\*   "readerr"      the body cannot be read to its end
TransportFailure == [failed |-> TRUE, StatusCode |-> 0, Status |-> "", body |-> "none"]

HTTPResponse(code, status, body) ==
    [failed |-> FALSE, StatusCode |-> code, Status |-> status, body |-> body]

Bodies == {"object", "emptyobject", "null", "syntax", "mismatch", "readerr"}

Responses ==
    {TransportFailure}
    \cup {HTTPResponse(StatusOK, "200 OK", b) : b \in Bodies}
    \cup {HTTPResponse(StatusUnauthorized, "401 Unauthorized", b) : b \in {"object", "syntax"}}
    \cup {HTTPResponse(404, "404 Not Found", "object"),
          HTTPResponse(500, "500 Internal Server Error", "syntax"),
          HTTPResponse(204, "204 No Content", "object")}

ErrTransport == [kind |-> "url.Error", msg |-> "Get: dial tcp: connection refused", unwrap |-> <<>>]
ErrRead == [kind |-> "readError", msg |-> "unexpected EOF", unwrap |-> <<>>]
ErrSyntax == [kind |-> "json.SyntaxError", msg |-> "invalid character", unwrap |-> <<>>]
ErrUnmarshalType == [kind |-> "json.UnmarshalTypeError", msg |-> "json: cannot unmarshal", unwrap |-> <<>>]

\* fmt.Errorf("unknown error: %s", response.Status)
UnknownError(status) == [kind |-> "errorString", msg |-> "unknown error: " \o status, unwrap |-> <<>>]

\* fmt.Errorf(prefix + ": %w", err)
Wrap(prefix, err) == [kind |-> "wrapError", msg |-> prefix \o ": " \o err.msg, unwrap |-> <<err>>]

\* json.Unmarshal(body, &resp) on a destination whose content is dest:
\* "nil" (a nil pointer variable), "zero" (a zero struct), "decoded", "partial".
\* A syntax error is found before anything is stored; a type mismatch is
\* found while storing, after the destination was allocated and partly filled.
Unmarshal(body, dest) ==
    CASE body = "object"      -> [err |-> NoErr, dest |-> "decoded"]
      [] body = "emptyobject" -> [err |-> NoErr, dest |-> "zero"]
      [] body = "null"        -> [err |-> NoErr, dest |-> dest]
      [] body = "syntax"      -> [err |-> ErrSyntax, dest |-> dest]
      [] body = "mismatch"    -> [err |-> ErrUnmarshalType, dest |-> "partial"]

\* A mutant of request: only the status 401 is an error.
requestOnly401(resp, dest) ==
    IF resp.failed THEN [err |-> ErrTransport, dest |-> dest]
    ELSE IF resp.StatusCode = StatusUnauthorized THEN [err |-> ErrUnauthorized, dest |-> dest]
    ELSE IF resp.body = "readerr" THEN [err |-> ErrRead, dest |-> dest]
    ELSE Unmarshal(resp.body, dest)

\* request, from client.Do on: the error returned and the destination left.
request(resp, dest) ==
    IF resp.failed THEN [err |-> ErrTransport, dest |-> dest]
    ELSE IF resp.StatusCode # StatusOK
         THEN IF resp.StatusCode = StatusUnauthorized
              THEN [err |-> ErrUnauthorized, dest |-> dest]
              ELSE [err |-> UnknownError(resp.Status), dest |-> dest]
    ELSE IF resp.body = "readerr" THEN [err |-> ErrRead, dest |-> dest]
    ELSE Unmarshal(resp.body, dest)

\* requestWithCreds, from client.GetContext on.
requestWithCreds(resp, dest) ==
    IF resp.failed THEN [err |-> ErrTransport, dest |-> dest]
    ELSE IF resp.StatusCode # StatusOK
         THEN IF resp.StatusCode = StatusUnauthorized
              THEN [err |-> ErrUnauthorized, dest |-> dest]
              ELSE [err |-> UnknownError(resp.Status), dest |-> dest]
    ELSE IF resp.body = "readerr" THEN [err |-> ErrRead, dest |-> dest]
    ELSE Unmarshal(resp.body, dest)

\* url.Values.Encode on parameters given as <<key, value>> pairs sorted by
\* key (the values used here are letters and digits, which it leaves as is).
RECURSIVE Encode(_)
Encode(params) ==
    IF params = <<>> THEN ""
    ELSE params[1][1] \o "=" \o params[1][2]
         \o (IF Len(params) > 1 THEN "&" \o Encode(Tail(params)) ELSE "")

\* request, up to client.Do: the request it sends.
requestSend(path, params, h) ==
    [method |-> "GET", url |-> path \o "?" \o Encode(params), auth |-> "static", header |-> h]

\* requestWithCreds, up to client.GetContext: signing needs the fields of
\* the client, so a nil *oauth.Client is dereferenced and the call panics.
requestWithCredsSend(path, oauthClient, creds) ==
    IF oauthClient = NilOAuth THEN [panic |-> TRUE]
    ELSE [panic |-> FALSE, method |-> "GET", url |-> path, auth |-> "oauth",
          oauthClient |-> oauthClient, creds |-> creds]

(***************************************************************************)
(* Options.                                                                *)
(***************************************************************************)
WithCredentials(creds) == [kind |-> "creds", val |-> creds]
WithClient(oc) == [kind |-> "oauthClient", val |-> oc]

\* A mutant of ApplyOption: the type switch has no case for *userService.
ApplyOptionCollectionOnly(opt, svcType, svc) ==
    IF svcType = "collection"
    THEN IF opt.kind = "creds" THEN [svc EXCEPT !.creds = opt.val]
         ELSE [svc EXCEPT !.oauthClient = opt.val]
    ELSE svc

\* Calling an Option on a service: the type switch sets the field of a
\* *collectionService or a *userService and does nothing otherwise.
ApplyOption(opt, svcType, svc) ==
    IF svcType \in {"collection", "user"}
    THEN IF opt.kind = "creds" THEN [svc EXCEPT !.creds = opt.val]
         ELSE [svc EXCEPT !.oauthClient = opt.val]
    ELSE svc

\* for _, opts := range options { opts(c) }
RECURSIVE ApplyOptions(_, _, _)
ApplyOptions(options, svcType, svc) ==
    IF options = <<>> THEN svc
    ELSE ApplyOptions(Tail(options), svcType, ApplyOption(Head(options), svcType, svc))

(***************************************************************************)
(* Paths.                                                                  *)
(***************************************************************************)
releasesURI == "/releases/"
artistsURI == "/artists/"
labelsURI == "/labels/"
mastersURI == "/masters/"
foldersURI == "/users/{username}/collection/folders"
folderURI == "/users/{username}/collection/folders/{id}"
folderReleasesURI == "/users/{username}/collection/folders/{id}/releases"
oauthIdentityURI == "/oauth/identity"

\* Pagination.params(): page and per_page, a field left zero omitted.
PaginationParams(pg) ==
    (IF pg.Page # 0 THEN <<(<<"page", Itoa(pg.Page)>>)>> ELSE <<>>)
    \o (IF pg.PerPage # 0 THEN <<(<<"per_page", Itoa(pg.PerPage)>>)>> ELSE <<>>)

ReleasePath(s, id) == s.url \o releasesURI \o Itoa(id)
ReleaseRatingPath(s, id) == s.url \o releasesURI \o Itoa(id) \o "/rating"
ArtistPath(s, id) == s.url \o artistsURI \o Itoa(id)
ArtistReleasesPath(s, id) == s.url \o artistsURI \o Itoa(id) \o "/releases"
LabelPath(s, id) == s.url \o labelsURI \o Itoa(id)
LabelReleasesPath(s, id) == s.url \o labelsURI \o Itoa(id) \o "/releases"
MasterPath(s, id) == s.url \o mastersURI \o Itoa(id)
MasterVersionsPath(s, id) == s.url \o mastersURI \o Itoa(id) \o "/versions"

GetFoldersPath(username) == Replace(foldersURI, "{username}", username)
GetFolderPath(username, id) ==
    Replace(Replace(folderURI, "{username}", username), "{id}", Itoa(id))
GetFolderReleasesPath(username, id) ==
    Replace(Replace(folderReleasesURI, "{username}", username), "{id}", Itoa(id))

(***************************************************************************)
(* The operations.  A database operation builds its path and parameters    *)
(* and sends its request in one step (it writes nothing shared); an OAuth  *)
(* operation first applies its options to the service, then reads the      *)
(* service's fields and sends.  Either returns when the transport answers. *)
(***************************************************************************)
NoReq == [method |-> "none"]

NilResult == [isNil |-> TRUE, content |-> "nil"]

StaticCall(op, id, path, params) ==
    [pc |-> "sent", op |-> op, svc |-> "database", id |-> id, username |-> "",
     options |-> <<>>, path |-> path, params |-> params,
     req |-> requestSend(path, params, header), nreq |-> 1, dest |-> "nil"]

\* A mutant of StartStatic: request adds a header to the package-level
\* header value on every call.
StartStaticAddsHeader(p, op, id, path, params) ==
    /\ ~aborted
    /\ ~client.isNil
    /\ calls[p].pc = "idle"
    /\ header' = HeaderAdd(header, "Accept", "application/json")
    /\ calls' = [calls EXCEPT ![p] = StaticCall(op, id, path, params)]
    /\ ret' = NoRet
    /\ UNCHANGED <<client, newRet, aborted>>

\* A database operation up to the point where request waits for the answer.
StartStatic(p, op, id, path, params) ==
    /\ ~aborted
    /\ ~client.isNil
    /\ calls[p].pc = "idle"
    /\ calls' = [calls EXCEPT ![p] = StaticCall(op, id, path, params)]
    /\ ret' = NoRet
    /\ UNCHANGED <<header, client, newRet, aborted>>

Release(p, id) ==
    StartStatic(p, "Release", id, ReleasePath(client.database, id),
                <<(<<"curr_abbr", client.database.currency>>)>>)

ReleaseRating(p, id) ==
    StartStatic(p, "ReleaseRating", id, ReleaseRatingPath(client.database, id), <<>>)

Artist(p, id) ==
    StartStatic(p, "Artist", id, ArtistPath(client.database, id), <<>>)

ArtistReleases(p, id, pg) ==
    StartStatic(p, "ArtistReleases", id, ArtistReleasesPath(client.database, id),
                PaginationParams(pg))

Label(p, id) ==
    StartStatic(p, "Label", id, LabelPath(client.database, id), <<>>)

LabelReleases(p, id, pg) ==
    StartStatic(p, "LabelReleases", id, LabelReleasesPath(client.database, id),
                PaginationParams(pg))

Master(p, id) ==
    StartStatic(p, "Master", id, MasterPath(client.database, id), <<>>)

MasterVersions(p, id, pg) ==
    StartStatic(p, "MasterVersions", id, MasterVersionsPath(client.database, id),
                PaginationParams(pg))

\* The start of an OAuth operation: the options are applied to the service
\* (svc is "collection" or "user") and the path is built.
StartOAuth(p, op, svc, username, id, path, options) ==
    /\ ~aborted
    /\ ~client.isNil
    /\ calls[p].pc = "idle"
    /\ client' = [client EXCEPT ![svc] = ApplyOptions(options, svc, client[svc])]
    /\ calls' = [calls EXCEPT ![p] =
          [pc |-> "applied", op |-> op, svc |-> svc, id |-> id, username |-> username,
           options |-> options, path |-> client[svc].url \o path, params |-> <<>>,
           req |-> NoReq, nreq |-> 0, dest |-> "zero"]]
    /\ ret' = NoRet
    /\ UNCHANGED <<header, newRet, aborted>>

GetFolders(p, username, options) ==
    StartOAuth(p, "GetFolders", "collection", username, 0, GetFoldersPath(username), options)

GetFolder(p, username, id, options) ==
    StartOAuth(p, "GetFolder", "collection", username, id, GetFolderPath(username, id), options)

GetFolderReleases(p, username, id, options) ==
    StartOAuth(p, "GetFolderReleases", "collection", username, id,
               GetFolderReleasesPath(username, id), options)

OAuthIdentity(p, options) ==
    StartOAuth(p, "OAuthIdentity", "user", "", 0, oauthIdentityURI, options)

\* The call of requestWithCreds: the service's fields are read now.
SendOAuth(p) ==
    /\ ~aborted
    /\ calls[p].pc = "applied"
    /\ LET c == calls[p]
           s == requestWithCredsSend(c.path, client[c.svc].oauthClient, client[c.svc].creds)
       IN  IF s.panic
           THEN /\ aborted' = TRUE
                /\ calls' = [calls EXCEPT ![p] = [c EXCEPT !.pc = "panicked"]]
           ELSE /\ aborted' = aborted
                /\ calls' = [calls EXCEPT ![p] = [c EXCEPT !.pc = "sent", !.req = s, !.nreq = 1]]
    /\ UNCHANGED <<header, client, newRet, ret>>

\* The message a database operation puts before the error it returns.
FailMessage(op) ==
    CASE op = "Release"        -> "failed to fetch release"
      [] op = "ReleaseRating"  -> "failed to fetch release rating"
      [] op = "Artist"         -> "failed to fetch artist"
      [] op = "ArtistReleases" -> "failed to fetch artist releases"
      [] op = "Label"          -> "failed to fetch artist releases"
      [] op = "LabelReleases"  -> "failed to fetch artist releases"
      [] op = "Master"         -> "failed to fetch artist releases"
      [] op = "MasterVersions" -> "failed to fetch artist releases"

\* A mutant of DatabaseResult: the destination is returned beside the error.
DatabaseResultKeepsDest(op, r) ==
    [result |-> IF r.dest = "nil" THEN NilResult ELSE [isNil |-> FALSE, content |-> r.dest],
     err |-> IF r.err # NoErr THEN Wrap(FailMessage(op), r.err) ELSE NoErr]

\* What a database operation returns, given what request left: the pointer
\* variable it passed (nil unless the decoder allocated it), or nil and the
\* wrapped error.
DatabaseResult(op, r) ==
    IF r.err # NoErr
    THEN [result |-> NilResult, err |-> Wrap(FailMessage(op), r.err)]
    ELSE [result |-> IF r.dest = "nil" THEN NilResult
                     ELSE [isNil |-> FALSE, content |-> r.dest],
          err |-> NoErr]

\* What a collection or user operation returns: the address of its local
\* struct, or nil and the error as requestWithCreds returned it.
OAuthResult(op, r) ==
    IF r.err # NoErr
    THEN [result |-> NilResult, err |-> r.err]
    ELSE [result |-> [isNil |-> FALSE, content |-> r.dest], err |-> NoErr]

Returned(p, c, resp, r, out) ==
    /\ ret' = [op |-> c.op, proc |-> p, resp |-> resp, dest |-> r.dest,
               result |-> out.result, err |-> out.err, nreq |-> c.nreq]
    /\ calls' = [calls EXCEPT ![p] = IdleCall]
    /\ UNCHANGED <<header, client, newRet, aborted>>

\* A mutant of ReturnStatic: a failed request is sent again, twice at most.
ReturnStaticRetries(p, resp) ==
    /\ ~aborted
    /\ calls[p].pc = "sent"
    /\ calls[p].req.auth = "static"
    /\ LET r == request(resp, calls[p].dest)
       IN  IF r.err # NoErr /\ calls[p].nreq < 3
           THEN /\ calls' = [calls EXCEPT ![p].nreq = @ + 1]
                /\ UNCHANGED <<header, client, newRet, ret, aborted>>
           ELSE Returned(p, calls[p], resp, r, DatabaseResult(calls[p].op, r))

\* The transport answers a database operation, which returns.
ReturnStatic(p, resp) ==
    /\ ~aborted
    /\ calls[p].pc = "sent"
    /\ calls[p].req.auth = "static"
    /\ LET r == request(resp, calls[p].dest)
       IN  Returned(p, calls[p], resp, r, DatabaseResult(calls[p].op, r))

\* The transport answers a collection or user operation, which returns.
ReturnOAuth(p, resp) ==
    /\ ~aborted
    /\ calls[p].pc = "sent"
    /\ calls[p].req.auth = "oauth"
    /\ LET r == requestWithCreds(resp, calls[p].dest)
       IN  Returned(p, calls[p], resp, r, OAuthResult(calls[p].op, r))

(***************************************************************************)
(* One caller: construction and every operation, one call at a time.       *)
(***************************************************************************)
MaxId == 12

Ids == {0 - MaxId, -1, 0, 7, MaxId}

Usernames == {"alice", "{id}", "a{id}b", "{username}"}

Paginations == {[Page |-> 0, PerPage |-> 0], [Page |-> 2, PerPage |-> 50]}

SomeOptions ==
    {NilOptions,
     MkOptions("", "", "ua1", "tok"),
     MkOptions("http://h", "GBP", "ua2", ""),
     MkOptions("", "XXX", "ua2", "tok"),
     MkOptions("http://h", "GBP", "", "tok")}

\* An OAuth operation is called with no option or with a client and its
\* credentials.
OptionLists == {<<>>, <<WithClient("oc1"), WithCredentials("cr1")>>}

Next ==
    \/ \E o \in SomeOptions : \E keep \in BOOLEAN : New(o, keep)
    \/ \E id \in Ids : Release(1, id)
    \/ \E id \in Ids : ReleaseRating(1, id)
    \/ \E id \in Ids : Artist(1, id)
    \/ \E id \in Ids : \E pg \in Paginations : ArtistReleases(1, id, pg)
    \/ \E id \in Ids : Label(1, id)
    \/ \E id \in Ids : \E pg \in Paginations : LabelReleases(1, id, pg)
    \/ \E id \in Ids : Master(1, id)
    \/ \E id \in Ids : \E pg \in Paginations : MasterVersions(1, id, pg)
    \/ \E u \in Usernames : \E os \in OptionLists : GetFolders(1, u, os)
    \/ \E u \in Usernames : \E id \in Ids : \E os \in OptionLists : GetFolder(1, u, id, os)
    \/ \E u \in Usernames : \E id \in Ids : \E os \in OptionLists : GetFolderReleases(1, u, id, os)
    \/ \E os \in OptionLists : OAuthIdentity(1, os)
    \/ SendOAuth(1)
    \/ \E resp \in Responses : ReturnStatic(1, resp)
    \/ \E resp \in Responses : ReturnOAuth(1, resp)

Spec == Init /\ [][Next]_vars

(***************************************************************************)
(* Several goroutines calling one client: a database operation and         *)
(* OAuthIdentity, their steps interleaved.                                 *)
(***************************************************************************)
ConcOptions == {MkOptions("", "", "ua1", "tok")}

ConcOptionLists ==
    {<<>>,
     <<WithClient("oc1"), WithCredentials("cr1")>>,
     <<WithClient("oc2"), WithCredentials("cr2")>>}

ConcResponses ==
    {HTTPResponse(StatusOK, "200 OK", "object"),
     HTTPResponse(StatusUnauthorized, "401 Unauthorized", "object")}

NextConc ==
    \/ \E o \in ConcOptions : New(o, FALSE)
    \/ \E p \in Procs : Release(p, 7)
    \/ \E p \in Procs : \E os \in ConcOptionLists : OAuthIdentity(p, os)
    \/ \E p \in Procs : SendOAuth(p)
    \/ \E p \in Procs : \E resp \in ConcResponses : ReturnStatic(p, resp)
    \/ \E p \in Procs : \E resp \in ConcResponses : ReturnOAuth(p, resp)

SpecConc == Init /\ [][NextConc]_vars

(***************************************************************************)
(* One caller attaching OAuth material: the collection operations and      *)
(* OAuthIdentity, called with every list of at most MaxOptions options.    *)
(***************************************************************************)
OptionValues ==
    {WithClient("oc1"), WithClient("oc2"), WithCredentials("cr1"), WithCredentials("cr2")}

AllOptionLists == UNION {[1..n -> OptionValues] : n \in 0..MaxOptions}

NextOptions ==
    \/ \E o \in ConcOptions : New(o, FALSE)
    \/ \E os \in AllOptionLists : GetFolders(1, "alice", os)
    \/ \E os \in AllOptionLists : GetFolder(1, "alice", 7, os)
    \/ \E os \in AllOptionLists : GetFolderReleases(1, "alice", 7, os)
    \/ \E os \in AllOptionLists : OAuthIdentity(1, os)
    \/ SendOAuth(1)
    \/ \E resp \in ConcResponses : ReturnOAuth(1, resp)

SpecOptions == Init /\ [][NextOptions]_vars

(***************************************************************************)
(* Construction alone, over every combination of the option fields.        *)
(***************************************************************************)
AllCurrencies == SupportedCurrencies \cup {"", "XXX", "usd"}

AllOptions ==
    {NilOptions} \cup
    {MkOptions(url, cur, ua, tok) :
        url \in {"", "http://h"}, cur \in AllCurrencies,
        ua \in {"", "ua1"}, tok \in {"", "tok"}}

NextNew == \E o \in AllOptions : \E keep \in BOOLEAN : New(o, keep)

SpecNew == Init /\ [][NextNew]_vars

(***************************************************************************)
(* Properties.                                                             *)
(***************************************************************************)
C1_DocumentedCodes ==
    {"USD", "GBP", "EUR", "CAD", "AUD", "JPY", "CHF", "MXN", "BRL", "NZD", "SEK", "ZAR"}

C2_NoUserAgentAlwaysFails ==
    (newRet.called /\ (newRet.opts.isNil \/ newRet.opts.UserAgent = "")) =>
        /\ newRet.err = ErrUserAgentInvalid
        /\ newRet.client.isNil

C2_Witness ==
    /\ newRet.called
    /\ ~newRet.opts.isNil
    /\ newRet.opts.UserAgent = ""
    /\ newRet.opts.Currency = "XXX"
    /\ newRet.opts.Token = "tok"
    /\ newRet.err = ErrUserAgentInvalid

\* The error the transport function returned to the operation.
TransportErr == IF ret.err.kind = "wrapError" THEN ret.err.unwrap[1] ELSE ret.err

\* C3: in both transport functions, for every HTTP response: status 401
\* gives ErrUnauthorized; any other status but 200 gives an error whose text
\* contains the status text; status 200 with a body that is not JSON gives a
\* decode error that is neither of those; and the error is nil only for
\* status 200 with a body that is valid JSON.
C3_StatusDecidesError ==
    (ret.op # "none" /\ ~ret.resp.failed) =>
        LET r == ret.resp
            e == TransportErr
        IN  /\ r.StatusCode = 401 => e = ErrUnauthorized
            /\ r.StatusCode \notin {200, 401} =>
                /\ e # NoErr
                /\ e # ErrUnauthorized
                /\ Contains(e.msg, r.Status)
            /\ (r.StatusCode = 200 /\ r.body = "syntax") =>
                /\ e.kind = "json.SyntaxError"
                /\ e # ErrUnauthorized
                /\ ~Contains(e.msg, r.Status)
            /\ e = NoErr =>
                /\ r.StatusCode = 200
                /\ r.body \in {"object", "emptyobject", "null"}

C3_Witness ==
    /\ ret.op = "OAuthIdentity"
    /\ ~ret.resp.failed
    /\ ret.resp.StatusCode = 500
    /\ ret.err.msg = "unknown error: 500 Internal Server Error"

\* The headers the Options o ask for.
C4_CarriesOptions(h, o) ==
    /\ "User-Agent" \in DOMAIN h
    /\ h["User-Agent"] = o.UserAgent
    /\ o.Token # "" =>
        /\ "Authorization" \in DOMAIN h
        /\ h["Authorization"] = "Discogs token=" \o o.Token

\* C4: a client's configuration is immutable once New has returned it:
\* whatever New calls follow, failed or not, every static-auth request
\* issued through the client carries the User-Agent and the token of the
\* Options it was constructed with.
C4_RequestCarriesOwnOptions ==
    \A p \in Procs :
        (calls[p].pc = "sent" /\ calls[p].req.auth = "static") =>
            C4_CarriesOptions(calls[p].req.header, client.opts)

C5_OperationName(op) ==
    CASE op = "Release"           -> "release"
      [] op = "ReleaseRating"     -> "release rating"
      [] op = "Artist"            -> "artist"
      [] op = "ArtistReleases"    -> "artist releases"
      [] op = "Label"             -> "label"
      [] op = "LabelReleases"     -> "label releases"
      [] op = "Master"            -> "master"
      [] op = "MasterVersions"    -> "master versions"
      [] op = "GetFolders"        -> "folders"
      [] op = "GetFolder"         -> "folder"
      [] op = "GetFolderReleases" -> "folder releases"
      [] op = "OAuthIdentity"     -> "identity"

\* C5: every failure of every exposed operation is returned wrapped with a
\* prefix "failed to fetch X" naming the operation X that failed, the cause
\* being reachable by unwrapping.
C5_FailureNamesOperation ==
    (ret.op # "none" /\ ret.err # NoErr) =>
        /\ ret.err.unwrap # <<>>
        /\ ret.err.msg =
              "failed to fetch " \o C5_OperationName(ret.op) \o ": " \o ret.err.unwrap[1].msg

\* C6: a collection or user operation called with no option on a client to
\* which no OAuth client was ever attached returns an error (and a nil
\* result) to its caller; the program is not aborted.
C6_NoCredentialsIsAnError ==
    \A p \in Procs :
        (calls[p].pc # "idle" /\ calls[p].svc \in {"collection", "user"}
            /\ calls[p].options = <<>>
            /\ client[calls[p].svc].oauthClient = NilOAuth) =>
                (calls[p].pc # "panicked" /\ ~aborted)

\* The OAuth client and credentials a call's own options name.
C7_Own(options) == ApplyOptions(options, "user", [oauthClient |-> NilOAuth, creds |-> NilOAuth])

\* C7 as stated: concurrent calls on the database and user paths share no
\* mutable state, so each request is signed and sent with the auth material
\* of its own call.
C7_OwnAuthMaterial ==
    \A p \in Procs :
        (calls[p].pc = "sent" /\ calls[p].op = "OAuthIdentity" /\ calls[p].options # <<>>) =>
            /\ calls[p].req.oauthClient = C7_Own(calls[p].options).oauthClient
            /\ calls[p].req.creds = C7_Own(calls[p].options).creds

\* A step of p that is a database operation starting or returning, an
\* OAuthIdentity call without options starting, or any call sending or
\* returning.
C7_QuietStep(p) ==
    /\ calls'[p] # calls[p]
    /\ \/ calls[p].pc \in {"applied", "sent"}
       \/ calls'[p].svc = "database"
       \/ calls'[p].options = <<>>

\* C7 amended: database operations, and OAuthIdentity calls that pass no
\* option, write nothing that calls share, whatever the interleaving; the
\* one write is that of an OAuthIdentity call applying its options to the
\* user service.
C7_OnlyOptionsWrite ==
    [][\A p \in Procs : C7_QuietStep(p) => (client' = client /\ header' = header)]_vars

C7_Witness ==
    \E p, q \in Procs :
        /\ calls[p].pc = "sent"
        /\ calls[p].svc = "database"
        /\ calls[q].pc = "sent"
        /\ calls[q].op = "OAuthIdentity"
        /\ calls[q].options = <<>>
        /\ calls[q].req.oauthClient = "oc2"

C8_Failure(resp) ==
    \/ resp.failed
    \/ resp.StatusCode # 200
    \/ resp.body \in {"readerr", "syntax", "mismatch"}

\* C8: for every exposed operation and every failure (transport error, 401,
\* other non-200 status, body read error, JSON decode error) the caller
\* gets a non-nil error and a nil result, never a partially decoded record.
C8_FailureReturnsNilResult ==
    (ret.op # "none" /\ C8_Failure(ret.resp)) =>
        /\ ret.err # NoErr
        /\ ret.result.isNil

C8_Witness ==
    /\ ret.op = "Release"
    /\ ret.resp.body = "mismatch"
    /\ ret.dest = "partial"
    /\ ret.result.isNil
    /\ ret.err # NoErr

\* The number a string of decimal digits denotes; -1 when it is not one.
RECURSIVE C9_DigitsValue(_)
C9_DigitsValue(s) ==
    IF Len(s) = 0 THEN 0
    ELSE LET d == Index("0123456789", SubSeq(s, Len(s), Len(s)))
             v == C9_DigitsValue(SubSeq(s, 1, Len(s) - 1))
         IN  IF d = 0 \/ v < 0 THEN -1 ELSE 10 * v + (d - 1)

\* s is the decimal numeral of n: digits, no leading zero, "-" before a
\* negative number only.
C9_IsDecimalOf(s, n) ==
    LET neg == Len(s) > 0 /\ SubSeq(s, 1, 1) = "-"
        digits == IF neg THEN SubSeq(s, 2, Len(s)) ELSE s
    IN  /\ Len(digits) > 0
        /\ (Len(digits) > 1 => SubSeq(digits, 1, 1) # "0")
        /\ C9_DigitsValue(digits) >= 0
        /\ n = (IF neg THEN 0 - C9_DigitsValue(digits) ELSE C9_DigitsValue(digits))
        /\ (neg => n < 0)

C9_Prefix(op) ==
    CASE op \in {"Release", "ReleaseRating"}   -> "/releases/"
      [] op \in {"Artist", "ArtistReleases"}   -> "/artists/"
      [] op \in {"Label", "LabelReleases"}     -> "/labels/"
      [] op \in {"Master", "MasterVersions"}   -> "/masters/"

C9_Suffix(op) ==
    CASE op = "ReleaseRating"                        -> "/rating"
      [] op \in {"ArtistReleases", "LabelReleases"}  -> "/releases"
      [] op = "MasterVersions"                       -> "/versions"
      [] OTHER                                       -> ""

C9_BaseURL(o) == IF o.URL = "" THEN "https://api.discogs.com" ELSE o.URL

C9_Currency(o) == IF o.Currency = "" THEN "USD" ELSE o.Currency

\* C9: for every id (zero and negative ones too) and every base URL each
\* database operation requests base URL + its template with the decimal id
\* in it, and Release, and only Release, adds curr_abbr, set to the
\* configured currency.
C9_DatabasePaths ==
    \A p \in Procs :
        (calls[p].pc = "sent" /\ calls[p].svc = "database") =>
            LET c == calls[p]
                head == C9_BaseURL(client.opts) \o C9_Prefix(c.op)
                tail == C9_Suffix(c.op)
                d == SubSeq(c.path, Len(head) + 1, Len(c.path) - Len(tail))
                query == SubSeq(c.req.url, Len(c.path) + 1, Len(c.req.url))
            IN  /\ c.path = head \o d \o tail
                /\ C9_IsDecimalOf(d, c.id)
                /\ c.req.url = c.path \o query
                /\ SubSeq(query, 1, 1) = "?"
                /\ c.op = "Release" => query = "?curr_abbr=" \o C9_Currency(client.opts)
                /\ c.op # "Release" => ~Contains(query, "curr_abbr")

C9_Witness ==
    \E p \in Procs :
        /\ calls[p].pc = "sent"
        /\ calls[p].op = "MasterVersions"
        /\ calls[p].id < -1
        /\ client.opts.URL = "http://h"
        /\ calls[p].req.url = "http://h/masters/-12/versions?page=2&per_page=50"

\* C10: for every username and folder id GetFolder requests
\* /users/<username>/collection/folders/<id> and GetFolderReleases the same
\* path followed by /releases, also when the username contains the text
\* "{id}" or "{username}".
C10_FolderPaths ==
    \A p \in Procs :
        (calls[p].pc \in {"applied", "sent"}
            /\ calls[p].op \in {"GetFolder", "GetFolderReleases"}) =>
            calls[p].path =
                client.collection.url \o "/users/" \o calls[p].username
                \o "/collection/folders/" \o Itoa(calls[p].id)
                \o (IF calls[p].op = "GetFolderReleases" THEN "/releases" ELSE "")

\* C11: every operation issues at most one HTTP request per call and never
\* retries: a call in progress has sent none or one, and a call that has
\* returned, with a result or with the failure of its request, sent exactly
\* one.
C11_OneRequestPerCall ==
    /\ \A p \in Procs :
          calls[p].pc # "idle" =>
              /\ calls[p].nreq <= 1
              /\ calls[p].pc = "sent" => calls[p].nreq = 1
              /\ calls[p].pc \in {"applied", "panicked"} => calls[p].nreq = 0
    /\ ret.op # "none" => ret.nreq = 1

C11_Witness ==
    /\ ret.op = "LabelReleases"
    /\ ret.resp.StatusCode = 500
    /\ ret.err # NoErr
    /\ ret.nreq = 1

\* The value of the last option of a kind in a list, old when there is none.
C12_Last(options, kind, old) ==
    LET at == {i \in 1..Len(options) : options[i].kind = kind}
    IN  IF at = {} THEN old
        ELSE options[CHOOSE i \in at : \A j \in at : j <= i].val

C12_OtherService(svc) == IF svc = "collection" THEN "user" ELSE "collection"

\* C12: OAuth material attached through an option stays on the service it
\* was applied to.  A call sets each field of its own service to the last
\* option of that kind among its arguments and leaves it as earlier calls
\* left it when it passes none; it never changes the other service; a call
\* without options changes nothing; and the request is signed with the
\* fields of the call's own service as they then are, which sending and
\* returning leave unchanged.
C12_OptionsPersistPerService ==
    [][\A p \in Procs :
          /\ (calls[p].pc = "idle" /\ calls'[p].pc = "applied") =>
                LET c == calls'[p]
                IN  /\ client'[c.svc].oauthClient =
                          C12_Last(c.options, "oauthClient", client[c.svc].oauthClient)
                    /\ client'[c.svc].creds =
                          C12_Last(c.options, "creds", client[c.svc].creds)
                    /\ client'[C12_OtherService(c.svc)] = client[C12_OtherService(c.svc)]
                    /\ c.options = <<>> => client' = client
          /\ (calls[p].pc = "applied" /\ calls'[p].pc = "sent") =>
                /\ calls'[p].req.oauthClient = client[calls[p].svc].oauthClient
                /\ calls'[p].req.creds = client[calls[p].svc].creds
                /\ client' = client
          /\ (calls[p].pc = "sent" /\ calls'[p].pc = "idle") => client' = client
    ]_vars

C12_Witness ==
    \E p \in Procs :
        /\ calls[p].pc = "sent"
        /\ calls[p].op = "GetFolders"
        /\ calls[p].options = <<WithCredentials("cr2"), WithCredentials("cr1")>>
        /\ calls[p].req.oauthClient = "oc2"
        /\ calls[p].req.creds = "cr1"
        /\ client.user.oauthClient = "oc1"
        /\ client.user.creds = NilOAuth

\* C13: every operation returns exactly one of a non-nil result and a
\* non-nil error, for every answer of the server; whenever the error is nil
\* (a body null or {} included) the result is not nil.
C13_ResultOrError ==
    ret.op # "none" =>
        /\ ret.err = NoErr => ~ret.result.isNil
        /\ ret.err # NoErr => ret.result.isNil

====
